---- MODULE Spec2Model ----
(***************************************************************************)
(* State-machine model of the prover agent (Prover.ProveLoop and what it   *)
(* calls) and of the settlement relayer (Layer2Relayer) of                 *)
(* src/prover/prover.go.                                                   *)
(*                                                                         *)
(* Two specifications share the module: SpecProver moves only the prover   *)
(* agent, SpecRelayer only the relayer.  The durable task stack, the       *)
(* transaction sender and the batch store are collaborators whose code is  *)
(* not part of the source file; they are modelled by the contract the      *)
(* callers rely on.                                                        *)
(***************************************************************************)
EXTENDS Integers, Sequences, FiniteSets, TLC

\* ------------------------------------------------------------------------
\* Bounds of the model
\* ------------------------------------------------------------------------

\* Number of distinct tasks the coordinator hands out before it answers
\* "no tasks available".
MaxTasks == 2

\* Cap on the proof-engine calls counted per task (keeps the counter finite
\* when the retry policy is changed).
ProveCap == 4

\* Number of batches in the batch store.
NumBatches == 2

\* Number of finalize transactions the rollup sender accepts in one run
\* before it only rejects.
MaxFinalizeTx == 2

\* Number of batch-store updates that fail in one run.
MaxDbFailures == 1

\* Number of blocks of the trace node, and the longest list of block hashes a
\* chunk task carries.
MaxBlocks == 3

\* The width in bits of the unsigned words the gas-price rule is checked
\* with, in place of the 64 bits of uint64.
WordBits == 3

\* The number of calls of Stop.
MaxStopCalls == 3

\* ------------------------------------------------------------------------
\* Prover agent: values
\* ------------------------------------------------------------------------

\* The absent value of an optional (a nil pointer, an empty stack).
None == [none |-> TRUE]

ProofTypeUndefined == "Undefined"
ProofTypeChunk == "Chunk"
ProofTypeBatch == "Batch"

\* message.ProofType values a configuration can carry (Prover.Type).
ProofTypes == {ProofTypeUndefined, ProofTypeChunk, ProofTypeBatch}

\* Proof types fetchTaskFromServer lets through its switch.
TaskProofTypes == {ProofTypeChunk, ProofTypeBatch}

StatusOk == "Ok"
StatusProofError == "ProofError"

TaskIDs == 1..MaxTasks

\* The retry counts a stored task can carry: UpdateTimes is only called with
\* Times+1 for Times <= 2.
TimesRange == 0..3

VARIABLES
    \* --- prover agent ---
    cfgProofType,   \* r.cfg.Core.ProofType
    stack,          \* the durable task stack: None or the stored ProvingTask
    pc,             \* position of the ProveLoop goroutine
    task,           \* proveAndSubmit's local task
    taskSrc,        \* where the iteration got its task: "none", "peek", "fetch"
    acqTimes,       \* task.Times when the iteration obtained the task
    proofMsg,       \* proveAndSubmit's local proofMsg
    submitted,      \* the SubmitProofRequest handed to the coordinator client
    submitErr,      \* what signAndSubmitProof returned
    nextTaskID,     \* next task the coordinator hands out
    updateFailed,   \* the iteration's UpdateTimes returned an error
    deleteCalls,    \* stack.Delete calls of the iteration
    iterProveCalls, \* proof-engine calls of the iteration
    iterTraceFetches, \* GetBlockTraceByHash rounds of the iteration
    proveTotal,     \* proof-engine calls per task, over all incarnations
    proveCrashes,   \* process crashes inside a proof-engine call, per task
    iterErr         \* the error that ended the iteration before it had a
                    \* task: "none", "peek", "fetch"

proverVars == <<cfgProofType, stack, pc, task, taskSrc, acqTimes, proofMsg,
                submitted, submitErr, nextTaskID, updateFailed, deleteCalls,
                iterProveCalls, iterTraceFetches, proveTotal, proveCrashes,
                iterErr>>

\* ------------------------------------------------------------------------
\* Settlement relayer: values
\* ------------------------------------------------------------------------

\* Batches of the store, named by their batch index; a batch's hash is its
\* index.
Batches == 1..NumBatches

\* The goroutines an external scheduler runs ProcessCommittedBatches on.
Finalizers == {"f1", "f2"}

ProvingTaskUnassigned == "Unassigned"
ProvingTaskAssigned == "Assigned"
ProvingTaskProved == "Proved"
ProvingTaskVerified == "Verified"
ProvingTaskFailed == "Failed"
ProvingTaskSkipped == "Skipped"

RollupPending == "Pending"
RollupCommitting == "Committing"
RollupCommitted == "Committed"
RollupCommitFailed == "CommitFailed"
RollupFinalizing == "Finalizing"
RollupFinalized == "Finalized"
RollupFinalizeFailed == "FinalizeFailed"
RollupFinalizationSkipped == "FinalizationSkipped"

\* batch.CreatedAt, in seconds.
CreatedAt(b) == b * b

\* r.cfg.FinalizeBatchIntervalSec
FinalizeBatchIntervalSec == 4

\* txID of SendCommitTx: crypto.Keccak256Hash over the concatenated batch
\* hashes, one value per list of hashes.
CommitTxID(hashes) == [kind |-> "commit", hashes |-> hashes]

\* txID of ProcessCommittedBatches: hash + "-finalize".
FinalizeTxID(hash) == [kind |-> "finalize", hashes |-> <<hash>>]

\* The hash SendTransaction returns for the transaction with this ID, and the
\* hash its confirmation carries (the sender may have replaced the
\* transaction since).
SentTxHash(id) == [id |-> id, mined |-> FALSE]
ConfirmedTxHash(id) == [id |-> id, mined |-> TRUE]

VARIABLES
    \* --- batch store ---
    provingStatus,  \* batch -> proving status (written by the proving side)
    rollupStatus,   \* batch -> rollup status
    commitTxHash,   \* batch -> commit transaction hash
    finalizeTxHash, \* batch -> finalize transaction hash
    dbFailures,     \* updates of the store that returned an error so far
    \* --- rollup sender ---
    pendingTxs,     \* IDs of the accepted and unconfirmed transactions
    \* --- Layer2Relayer ---
    processingMessage,            \* sync.Map: confirmation ID -> message hash
    processingBatchesCommitment,  \* sync.Map: confirmation ID -> batch hashes
    processingFinalization,       \* sync.Map: confirmation ID -> batch hash
    \* --- SendCommitTx, one invocation at a time ---
    cpc,            \* position
    cHashes,        \* batchHashes of the invocation
    \* --- ProcessCommittedBatches, one invocation per finalizer ---
    fpc,            \* position
    fHash,          \* hash selected by GetCommittedBatches(1)
    fStatus,        \* batch.ProvingStatus read by GetBlockBatches
    fSuccess,       \* the success flag
    \* --- handleConfirmLoop ---
    hpc,            \* position
    cfm,            \* the confirmation in hand
    \* --- observations ---
    callsUnverified,  \* finalize SendTransaction calls made for a batch
                      \* whose proving status was not read as Verified
    finalizeAccepted  \* batch -> finalize transactions the sender accepted

dbVars == <<provingStatus, rollupStatus, commitTxHash, finalizeTxHash,
           dbFailures>>

registryVars == <<processingMessage, processingBatchesCommitment,
                  processingFinalization>>

senderVars == <<pendingTxs>>

commitVars == <<cpc, cHashes>>

finalizeVars == <<fpc, fHash, fStatus, fSuccess>>

confirmVars == <<hpc, cfm>>

observeVars == <<callsUnverified, finalizeAccepted>>

relayerVars == <<dbVars, registryVars, senderVars, commitVars, finalizeVars,
                 confirmVars, observeVars>>

\* ------------------------------------------------------------------------
\* Chunk traces (proveChunk, getSortedTracesByHashes): values
\* ------------------------------------------------------------------------

\* The block hashes the trace node knows.
BlockHashes == 1..MaxBlocks

\* The block numbers of the node's traces.
BlockNumbers == 1..MaxBlocks

\* types.BlockTrace as far as the prover reads it: the block it belongs to
\* and Header.Number.
BlockTrace(hash, number) == [hash |-> hash, number |-> number]

VARIABLES
    \* --- proveChunk on one chunk task ---
    tpc,            \* position: "call", "sorted", "done"
    blockHashes,    \* task.Task.ChunkTaskDetail.BlockHashes
    headerNumber,   \* the node's data: block hash -> Header.Number
    failAt,         \* index of the hash whose GetBlockTraceByHash fails, or 0
    sortedTraces,   \* what getSortedTracesByHashes returned: (traces, err)
    engineTraces    \* the call of proverCore.ProveChunk, if it was made

traceVars == <<tpc, blockHashes, headerNumber, failAt, sortedTraces,
               engineTraces>>

\* ------------------------------------------------------------------------
\* Gas-price oracle (ProcessGasPriceOracle, handleConfirmLoop): values
\* ------------------------------------------------------------------------

\* uint64 arithmetic wraps modulo 2^WordBits.
WordModulus == 2 ^ WordBits
Uint64Values == 0..(WordModulus - 1)

\* gasPriceDiffPrecision
GasPriceDiffPrecision == 2

GasOraclePending == "GasOraclePending"
GasOracleImporting == "GasOracleImporting"
GasOracleImported == "GasOracleImported"
GasOracleFailed == "GasOracleFailed"

VARIABLES
    \* --- batch store ---
    gasOracleStatus,   \* batch hash -> OracleStatus
    oracleTxHash,      \* batch hash -> OracleTxHash, or None
    latestBatch,       \* the batch db.GetLatestBatch() returns
    oracleDbFailures,  \* failed UpdateL2GasOracleStatusAndOracleTxHash calls
    \* --- Layer2Relayer fields ---
    lastGasPrice,      \* r.lastGasPrice
    minGasPrice,       \* r.minGasPrice
    gasPriceDiff,      \* r.gasPriceDiff
    \* --- gasOracleSender ---
    gasPendingTxs,     \* IDs of the transactions accepted and not confirmed
    \* --- one invocation of ProcessGasPriceOracle ---
    gpc,               \* position: "idle", "rule", "record"
    gHash,             \* batch.Hash of the invocation
    gPrice,            \* suggestGasPriceUint64
    gAttempt           \* the last invocation went into the update branch

gasVars == <<gasOracleStatus, oracleTxHash, latestBatch, oracleDbFailures,
             lastGasPrice, minGasPrice, gasPriceDiff, gasPendingTxs,
             gpc, gHash, gPrice, gAttempt>>

\* ------------------------------------------------------------------------
\* Prover agent shutdown (ProveLoop, Stop): values
\* ------------------------------------------------------------------------

\* The threads that call Stop.
Stoppers == {"s1", "s2"}

VARIABLES
    isClosed,        \* r.isClosed
    stopChanCloses,  \* how often close(r.stopChan) was executed
    stackCloses,     \* how often r.stack.Close() was called
    spc,             \* thread -> position in Stop: "idle", "store", "close",
                     \*   "stack"
    stopCalls,       \* calls of Stop so far
    lpc              \* ProveLoop: "select", "run", "returned"

stopVars == <<isClosed, stopChanCloses, stackCloses, spc, stopCalls, lpc>>

vars == <<proverVars, relayerVars, traceVars, gasVars, stopVars>>

\* ------------------------------------------------------------------------
\* Prover agent: helpers
\* ------------------------------------------------------------------------

\* store.ProvingTask{Task: &message.TaskMsg{ID, Type}, Times}
ProvingTask(id, type, times) == [id |-> id, type |-> type, times |-> times]

\* message.ProofDetail
ProofDetail(id, type, status, error, chunkProof, batchProof) ==
    [id |-> id, type |-> type, status |-> status, error |-> error,
     chunkProof |-> chunkProof, batchProof |-> batchProof]

\* The detail proveAndSubmit builds for a task it refuses to prove.
PoisonDetail(t) ==
    ProofDetail(t.id, t.type, StatusProofError, "zk proving panic", FALSE, FALSE)

\* client.SubmitProofRequest built by signAndSubmitProof.
SubmitProofRequest(msg) ==
    [taskID |-> msg.id, status |-> msg.status, error |-> msg.error,
     proofType |-> msg.type, signed |-> TRUE,
     chunkProof |-> msg.chunkProof, batchProof |-> msg.batchProof]

ShouldProve_Off(times) == times <= 3

\* The retry test of proveAndSubmit: "if task.Times <= 2".
ShouldProve(times) == times <= 2

\* Stack.UpdateTimes(task, n) that succeeded: the stored record of the task
\* carries the new count.
StackAfterUpdate(t, n) == ProvingTask(t.id, t.type, n)

\* Stack.Delete(id) that succeeded: the record with that key is gone.
StackAfterDelete(s, id) == IF s # None /\ s.id = id THEN None ELSE s

ResetIteration ==
    /\ task' = None
    /\ taskSrc' = "none"
    /\ acqTimes' = 0
    /\ proofMsg' = None
    /\ submitted' = None
    /\ submitErr' = "none"
    /\ updateFailed' = FALSE
    /\ deleteCalls' = 0
    /\ iterProveCalls' = 0
    /\ iterTraceFetches' = 0

\* ------------------------------------------------------------------------
\* Prover agent: Init
\* ------------------------------------------------------------------------

InitProver ==
    /\ cfgProofType \in ProofTypes
    /\ stack = None
    /\ pc = "loop"
    /\ task = None
    /\ taskSrc = "none"
    /\ acqTimes = 0
    /\ proofMsg = None
    /\ submitted = None
    /\ submitErr = "none"
    /\ nextTaskID = 1
    /\ updateFailed = FALSE
    /\ deleteCalls = 0
    /\ iterProveCalls = 0
    /\ iterTraceFetches = 0
    /\ proveTotal = [i \in TaskIDs |-> 0]
    /\ proveCrashes = [i \in TaskIDs |-> 0]
    /\ iterErr = "none"

\* ------------------------------------------------------------------------
\* Prover agent: proveAndSubmit, one action per step
\* ------------------------------------------------------------------------

PeekTask_FetchOnAnyError ==
    /\ pc = "loop"
    /\ \/ \* Peek fails with an error other than ErrEmpty: return err
          /\ ResetIteration
          /\ iterErr' = "none"
          /\ pc' = "fetch"
          /\ UNCHANGED <<stack>>
       \/ \* ErrEmpty: go on to fetchTaskFromServer
          /\ stack = None
          /\ ResetIteration
          /\ iterErr' = "none"
          /\ pc' = "fetch"
          /\ UNCHANGED <<stack>>
       \/ \* a stored task
          /\ stack # None
          /\ task' = stack
          /\ taskSrc' = "peek"
          /\ acqTimes' = stack.times
          /\ proofMsg' = None
          /\ submitted' = None
          /\ submitErr' = "none"
          /\ updateFailed' = FALSE
          /\ deleteCalls' = 0
          /\ iterProveCalls' = 0
          /\ iterTraceFetches' = 0
          /\ iterErr' = "none"
          /\ pc' = "check"
          /\ UNCHANGED <<stack>>
    /\ UNCHANGED <<cfgProofType, nextTaskID, proveTotal, proveCrashes>>

\* ProveLoop's default branch calls proveAndSubmit, which starts with
\* r.stack.Peek().  The variables of the previous iteration are dropped.
PeekTask ==
    /\ pc = "loop"
    /\ \/ \* Peek fails with an error other than ErrEmpty: return err
          /\ ResetIteration
          /\ iterErr' = "peek"
          /\ pc' = "loop"
          /\ UNCHANGED <<stack>>
       \/ \* ErrEmpty: go on to fetchTaskFromServer
          /\ stack = None
          /\ ResetIteration
          /\ iterErr' = "none"
          /\ pc' = "fetch"
          /\ UNCHANGED <<stack>>
       \/ \* a stored task
          /\ stack # None
          /\ task' = stack
          /\ taskSrc' = "peek"
          /\ acqTimes' = stack.times
          /\ proofMsg' = None
          /\ submitted' = None
          /\ submitErr' = "none"
          /\ updateFailed' = FALSE
          /\ deleteCalls' = 0
          /\ iterProveCalls' = 0
          /\ iterTraceFetches' = 0
          /\ iterErr' = "none"
          /\ pc' = "check"
          /\ UNCHANGED <<stack>>
    /\ UNCHANGED <<cfgProofType, nextTaskID, proveTotal, proveCrashes>>

\* fetchTaskFromServer.  A failure (block number, request, no task, payload
\* that does not decode, unknown proof type) sleeps retryWait and returns the
\* error.  A task comes back with Times 0.
FetchTask ==
    /\ pc = "fetch"
    /\ \/ /\ pc' = "loop"
          /\ iterErr' = "fetch"
          /\ UNCHANGED <<task, taskSrc, acqTimes, nextTaskID>>
       \/ /\ nextTaskID <= MaxTasks
          /\ \E type \in TaskProofTypes :
                task' = ProvingTask(nextTaskID, type, 0)
          /\ taskSrc' = "fetch"
          /\ acqTimes' = 0
          /\ nextTaskID' = nextTaskID + 1
          /\ pc' = "check"
          /\ UNCHANGED iterErr
    /\ UNCHANGED <<cfgProofType, stack, proofMsg, submitted, submitErr,
                   updateFailed, deleteCalls, iterProveCalls,
                   iterTraceFetches, proveTotal, proveCrashes>>

CheckRetry_NoIncrement ==
    /\ pc = "check"
    /\ IF ShouldProve(task.times)
       THEN \/ /\ updateFailed' = TRUE
               /\ pc' = "loop"
               /\ UNCHANGED <<stack, task, proofMsg>>
            \/ /\ stack' = StackAfterUpdate(task, task.times)
               /\ pc' = "prove"
               /\ UNCHANGED <<task, updateFailed, proofMsg>>
       ELSE /\ proofMsg' = PoisonDetail(task)
            /\ pc' = "submit"
            /\ UNCHANGED <<stack, task, updateFailed>>
    /\ UNCHANGED <<cfgProofType, iterErr, taskSrc, acqTimes, submitted, submitErr,
                   nextTaskID, deleteCalls, iterProveCalls, iterTraceFetches,
                   proveTotal, proveCrashes>>

CheckRetry_ProveAnyway ==
    /\ pc = "check"
    /\ IF ShouldProve(task.times)
       THEN \/ /\ updateFailed' = TRUE
               /\ pc' = "prove"
               /\ UNCHANGED <<stack, task, proofMsg>>
            \/ /\ stack' = StackAfterUpdate(task, task.times + 1)
               /\ task' = [task EXCEPT !.times = task.times + 1]
               /\ pc' = "prove"
               /\ UNCHANGED <<updateFailed, proofMsg>>
       ELSE /\ proofMsg' = PoisonDetail(task)
            /\ pc' = "submit"
            /\ UNCHANGED <<stack, task, updateFailed>>
    /\ UNCHANGED <<cfgProofType, iterErr, taskSrc, acqTimes, submitted, submitErr,
                   nextTaskID, deleteCalls, iterProveCalls, iterTraceFetches,
                   proveTotal, proveCrashes>>

\* The retry/poison branch of proveAndSubmit: with Times <= 2 the count
\* Times+1 is stored first and an error of UpdateTimes returns at once (the
\* deferred Delete is not registered yet); otherwise the fixed failure detail
\* is built.
CheckRetry ==
    /\ pc = "check"
    /\ IF ShouldProve(task.times)
       THEN \/ /\ updateFailed' = TRUE
               /\ pc' = "loop"
               /\ UNCHANGED <<stack, task, proofMsg>>
            \/ /\ stack' = StackAfterUpdate(task, task.times + 1)
               /\ task' = [task EXCEPT !.times = task.times + 1]
               /\ pc' = "prove"
               /\ UNCHANGED <<updateFailed, proofMsg>>
       ELSE /\ proofMsg' = PoisonDetail(task)
            /\ pc' = "submit"
            /\ UNCHANGED <<stack, task, updateFailed>>
    /\ UNCHANGED <<cfgProofType, iterErr, taskSrc, acqTimes, submitted, submitErr,
                   nextTaskID, deleteCalls, iterProveCalls, iterTraceFetches,
                   proveTotal, proveCrashes>>

\* prove(task) up to the call of the proof engine: the switch on r.Type(),
\* the nil checks of proveChunk/proveBatch and getSortedTracesByHashes.
StartProve ==
    /\ pc = "prove"
    /\ CASE cfgProofType = ProofTypeChunk ->
              IF task.type # ProofTypeChunk
              THEN /\ proofMsg' = ProofDetail(task.id, task.type, StatusProofError,
                                              "ChunkTaskDetail is empty", FALSE, FALSE)
                   /\ pc' = "submit"
                   /\ UNCHANGED <<iterTraceFetches, iterProveCalls, proveTotal>>
              ELSE \/ /\ iterTraceFetches' = iterTraceFetches + 1
                      /\ proofMsg' = ProofDetail(task.id, task.type, StatusProofError,
                                                 "get traces from eth node failed",
                                                 FALSE, FALSE)
                      /\ pc' = "submit"
                      /\ UNCHANGED <<iterProveCalls, proveTotal>>
                   \/ /\ proveTotal[task.id] < ProveCap
                      /\ iterTraceFetches' = iterTraceFetches + 1
                      /\ iterProveCalls' = iterProveCalls + 1
                      /\ proveTotal' = [proveTotal EXCEPT ![task.id] = @ + 1]
                      /\ pc' = "proving"
                      /\ UNCHANGED <<proofMsg>>
         [] cfgProofType = ProofTypeBatch ->
              IF task.type # ProofTypeBatch
              THEN /\ proofMsg' = ProofDetail(task.id, task.type, StatusProofError,
                                              "BatchTaskDetail is empty", FALSE, FALSE)
                   /\ pc' = "submit"
                   /\ UNCHANGED <<iterTraceFetches, iterProveCalls, proveTotal>>
              ELSE /\ proveTotal[task.id] < ProveCap
                   /\ iterProveCalls' = iterProveCalls + 1
                   /\ proveTotal' = [proveTotal EXCEPT ![task.id] = @ + 1]
                   /\ pc' = "proving"
                   /\ UNCHANGED <<proofMsg, iterTraceFetches>>
         [] OTHER ->
              /\ proofMsg' = ProofDetail(task.id, task.type, StatusOk, "", FALSE, FALSE)
              /\ pc' = "submit"
              /\ UNCHANGED <<iterTraceFetches, iterProveCalls, proveTotal>>
    /\ UNCHANGED <<cfgProofType, iterErr, stack, task, taskSrc, acqTimes, submitted,
                   submitErr, nextTaskID, updateFailed, deleteCalls, proveCrashes>>

\* The proof engine returns: ProveChunk/ProveBatch gave a proof or an error.
FinishProve ==
    /\ pc = "proving"
    /\ \/ proofMsg' = ProofDetail(task.id, task.type, StatusOk, "",
                                  cfgProofType = ProofTypeChunk,
                                  cfgProofType = ProofTypeBatch)
       \/ proofMsg' = ProofDetail(task.id, task.type, StatusProofError,
                                  "proof engine error", FALSE, FALSE)
    /\ pc' = "submit"
    /\ UNCHANGED <<cfgProofType, iterErr, stack, task, taskSrc, acqTimes, submitted,
                   submitErr, nextTaskID, updateFailed, deleteCalls,
                   iterProveCalls, iterTraceFetches, proveTotal, proveCrashes>>

SubmitProof_NoDeferOnError ==
    /\ pc = "submit"
    /\ \/ /\ submitErr' = "sign"
          /\ pc' = "loop"
          /\ UNCHANGED submitted
       \/ /\ submitted' = SubmitProofRequest(proofMsg)
          /\ \/ /\ submitErr' = "ok"
                /\ pc' = "delete"
             \/ /\ submitErr' \in {"submit", "errCode"}
                /\ pc' = "loop"
    /\ UNCHANGED <<cfgProofType, iterErr, stack, task, taskSrc, acqTimes, proofMsg,
                   nextTaskID, updateFailed, deleteCalls, iterProveCalls,
                   iterTraceFetches, proveTotal, proveCrashes>>

\* signAndSubmitProof(proofMsg), called after the deferred Delete has been
\* registered: signing may fail, the request may fail, the response may
\* carry an error code other than 200.
SubmitProof ==
    /\ pc = "submit"
    /\ \/ /\ submitErr' = "sign"
          /\ UNCHANGED submitted
       \/ /\ submitted' = SubmitProofRequest(proofMsg)
          /\ submitErr' \in {"submit", "errCode", "ok"}
    /\ pc' = "delete"
    /\ UNCHANGED <<cfgProofType, iterErr, stack, task, taskSrc, acqTimes, proofMsg,
                   nextTaskID, updateFailed, deleteCalls, iterProveCalls,
                   iterTraceFetches, proveTotal, proveCrashes>>

\* The deferred r.stack.Delete(task.Task.ID); its error is only logged.
DeleteTask ==
    /\ pc = "delete"
    /\ deleteCalls' = deleteCalls + 1
    /\ \/ stack' = StackAfterDelete(stack, task.id)
       \/ UNCHANGED stack
    /\ pc' = "loop"
    /\ UNCHANGED <<cfgProofType, iterErr, task, taskSrc, acqTimes, proofMsg, submitted,
                   submitErr, nextTaskID, updateFailed, iterProveCalls,
                   iterTraceFetches, proveTotal, proveCrashes>>

\* The process dies in the middle of an iteration (a panic of the proof
\* engine, a nil dereference, a kill) and is started again: NewProver opens
\* the same stack file, everything in memory is lost.
Crash ==
    /\ pc # "loop"
    /\ ResetIteration
    /\ pc' = "loop"
    /\ proveCrashes' = IF pc = "proving"
                       THEN [proveCrashes EXCEPT ![task.id] = @ + 1]
                       ELSE proveCrashes
    /\ iterErr' = "none"
    /\ UNCHANGED <<cfgProofType, stack, nextTaskID, proveTotal>>

\* ------------------------------------------------------------------------
\* Settlement relayer: collaborators (batch store, sender, sync.Map)
\* ------------------------------------------------------------------------

ProvingStatuses ==
    {ProvingTaskUnassigned, ProvingTaskAssigned, ProvingTaskProved,
     ProvingTaskVerified, ProvingTaskFailed, ProvingTaskSkipped}

\* The moves the proving subsystem makes on a batch's proving status.
ProvingMoves(s) ==
    CASE s = ProvingTaskUnassigned -> {ProvingTaskAssigned, ProvingTaskSkipped}
      [] s = ProvingTaskAssigned -> {ProvingTaskProved, ProvingTaskFailed}
      [] s = ProvingTaskProved -> {ProvingTaskVerified, ProvingTaskFailed}
      [] OTHER -> {}

\* The list i, i+1, ..., j of batch hashes.
HashRange(i, j) == [k \in 1..(j - i + 1) |-> i + k - 1]

\* The non-empty lists SendCommitTx is called with: consecutive batches in
\* index order.
CommitLists == {HashRange(i, j) : i \in Batches, j \in Batches} \ {<<>>}

SeqRange(s) == {s[k] : k \in DOMAIN s}

\* The correlation IDs the rollup sender sees.
TxIDs == {CommitTxID(l) : l \in CommitLists} \cup {FinalizeTxID(b) : b \in Batches}

\* sync.Map.Store / Delete / Load
MapStore(m, k, v) == [x \in (DOMAIN m) \cup {k} |-> IF x = k THEN v ELSE m[x]]
MapDelete(m, k) == [x \in (DOMAIN m) \ {k} |-> m[x]]
MapHas(m, k) == k \in DOMAIN m
EmptyMap == <<>>

\* An update of the row with that hash.
SetStatus(col, hash, status) == [col EXCEPT ![hash] = status]

\* An update of the store returns an error and changes nothing.
DbError ==
    /\ dbFailures < MaxDbFailures
    /\ dbFailures' = dbFailures + 1

\* db.UpdateRollupStatus(ctx, hash, status)
UpdateRollupStatus(hash, status) ==
    \/ /\ rollupStatus' = SetStatus(rollupStatus, hash, status)
       /\ UNCHANGED dbFailures
    \/ /\ DbError
       /\ UNCHANGED rollupStatus

\* db.UpdateFinalizeTxHashAndRollupStatus(ctx, hash, txHash, status)
UpdateFinalizeTxHashAndRollupStatus(hash, txHash, status) ==
    \/ /\ rollupStatus' = SetStatus(rollupStatus, hash, status)
       /\ finalizeTxHash' = SetStatus(finalizeTxHash, hash, txHash)
       /\ UNCHANGED dbFailures
    \/ /\ DbError
       /\ UNCHANGED <<rollupStatus, finalizeTxHash>>

\* db.UpdateSkippedBatches: one bulk update of the committed batches whose
\* proving failed or was skipped.
SkippedBatches(rs, ps) ==
    {b \in Batches : rs[b] = RollupCommitted
                     /\ ps[b] \in {ProvingTaskFailed, ProvingTaskSkipped}}

\* db.GetCommittedBatches(1): the committed batch of least index, if any.
CommittedBatches(rs) == {b \in Batches : rs[b] = RollupCommitted}
Oldest(S) == CHOOSE b \in S : \A c \in S : b <= c

\* db.GetLatestFinalizingOrFinalizedBatch: the finalizing or finalized batch
\* of greatest index, if any.
FinalizingOrFinalized(rs) ==
    {b \in Batches : rs[b] \in {RollupFinalizing, RollupFinalized}}
Latest(S) == CHOOSE b \in S : \A c \in S : b >= c

\* sender.SendTransaction may accept a transaction whose ID is not among its
\* pending ones; it can always reject (ErrNoAvailableAccount, ErrFullPending,
\* any other error).
SenderMayAccept(id) == id \notin pendingTxs

\* ------------------------------------------------------------------------
\* Settlement relayer: Init (NewLayer2Relayer on a store of pending batches)
\* ------------------------------------------------------------------------

InitRelayer ==
    /\ provingStatus = [b \in Batches |-> ProvingTaskUnassigned]
    /\ rollupStatus = [b \in Batches |-> RollupPending]
    /\ commitTxHash = [b \in Batches |-> None]
    /\ finalizeTxHash = [b \in Batches |-> None]
    /\ dbFailures = 0
    /\ pendingTxs = {}
    /\ processingMessage = EmptyMap
    /\ processingBatchesCommitment = EmptyMap
    /\ processingFinalization = EmptyMap
    /\ cpc = "idle"
    /\ cHashes = <<>>
    /\ fpc = [f \in Finalizers |-> "idle"]
    /\ fHash = [f \in Finalizers |-> 0]
    /\ fStatus = [f \in Finalizers |-> "none"]
    /\ fSuccess = [f \in Finalizers |-> FALSE]
    /\ hpc = "idle"
    /\ cfm = None
    /\ callsUnverified = {}
    /\ finalizeAccepted = [b \in Batches |-> 0]

\* ------------------------------------------------------------------------
\* The proving subsystem (owner of provingStatus)
\* ------------------------------------------------------------------------

\* The relayer reads the proving status of committed batches only
\* (UpdateSkippedBatches, GetCommittedBatches), so the moves of a batch are
\* taken while it is committed.
ProvingProgress ==
    /\ \E b \in Batches : \E s \in ProvingMoves(provingStatus[b]) :
          /\ rollupStatus[b] = RollupCommitted
          /\ provingStatus' = [provingStatus EXCEPT ![b] = s]
    /\ UNCHANGED <<rollupStatus, commitTxHash, finalizeTxHash, dbFailures,
                   registryVars, senderVars, commitVars, finalizeVars,
                   confirmVars, observeVars>>

\* ------------------------------------------------------------------------
\* SendCommitTx
\* ------------------------------------------------------------------------

\* The errors of sender.SendTransaction that the submitters tell apart from
\* the others (they are not logged), and any other error.
ErrNoAvailableAccount == "ErrNoAvailableAccount"
ErrFullPending == "ErrFullPending"
SendErrors == {ErrNoAvailableAccount, ErrFullPending, "other"}

\* What SendCommitTx leaves alone up to the return of SendTransaction.
CommitSendFrame ==
    UNCHANGED <<dbVars, registryVars, finalizeVars, confirmVars, observeVars>>

\* len(batchData) == 0: logged, return nil.
CommitEmptyList ==
    /\ cpc = "idle"
    /\ UNCHANGED <<senderVars, commitVars>>
    /\ CommitSendFrame

\* r.l1RollupABI.Pack("commitBatches", ...) fails: return err.
CommitPackFails ==
    /\ cpc = "idle"
    /\ UNCHANGED <<senderVars, commitVars>>
    /\ CommitSendFrame

\* rollupSender.SendTransaction returns an error: return err.
CommitSendRejected(err) ==
    /\ cpc = "idle"
    /\ err \in SendErrors
    /\ UNCHANGED <<senderVars, commitVars>>
    /\ CommitSendFrame

\* rollupSender.SendTransaction returns a transaction hash.  The caller
\* passes the oldest batches that are still pending.
CommitSendAccepted ==
    /\ cpc = "idle"
    /\ \E l \in CommitLists :
          /\ \A b \in SeqRange(l) : rollupStatus[b] = RollupPending
          /\ \A b \in Batches : b < l[1] => rollupStatus[b] # RollupPending
          /\ SenderMayAccept(CommitTxID(l))
          /\ pendingTxs' = pendingTxs \cup {CommitTxID(l)}
          /\ cHashes' = l
          /\ cpc' = "record"
    /\ CommitSendFrame

\* SendCommitTx up to the return of SendTransaction.
CommitSend ==
    \/ CommitEmptyList
    \/ CommitPackFails
    \/ \E err \in SendErrors : CommitSendRejected(err)
    \/ CommitSendAccepted

\* The loop of UpdateCommitTxHashAndRollupStatus(hash, txHash, Committing);
\* a failed update is logged and the loop goes on.
CommitRecord ==
    /\ cpc = "record"
    /\ \E ok \in SUBSET SeqRange(cHashes) :
          LET failed == Cardinality(SeqRange(cHashes) \ ok) IN
          /\ dbFailures + failed <= MaxDbFailures
          /\ dbFailures' = dbFailures + failed
          /\ rollupStatus' = [b \in Batches |->
                IF b \in ok THEN RollupCommitting ELSE rollupStatus[b]]
          /\ commitTxHash' = [b \in Batches |->
                IF b \in ok THEN SentTxHash(CommitTxID(cHashes))
                ELSE commitTxHash[b]]
    /\ cpc' = "store"
    /\ UNCHANGED <<provingStatus, finalizeTxHash, registryVars, senderVars,
                   cHashes, finalizeVars, confirmVars, observeVars>>

CommitStore_FirstHashOnly ==
    /\ cpc = "store"
    /\ processingBatchesCommitment' =
          MapStore(processingBatchesCommitment, CommitTxID(cHashes),
                   <<cHashes[1]>>)
    /\ cpc' = "idle"
    /\ cHashes' = <<>>
    /\ UNCHANGED <<dbVars, processingMessage, processingFinalization,
                   senderVars, finalizeVars, confirmVars, observeVars>>

\* r.processingBatchesCommitment.Store(txID, batchHashes); return nil
CommitStore ==
    /\ cpc = "store"
    /\ processingBatchesCommitment' =
          MapStore(processingBatchesCommitment, CommitTxID(cHashes), cHashes)
    /\ cpc' = "idle"
    /\ cHashes' = <<>>
    /\ UNCHANGED <<dbVars, processingMessage, processingFinalization,
                   senderVars, finalizeVars, confirmVars, observeVars>>

\* ------------------------------------------------------------------------
\* ProcessCommittedBatches
\* ------------------------------------------------------------------------

\* Invocations of ProcessCommittedBatches are anonymous: a new one takes the
\* first free slot.
FreeSlot ==
    IF fpc["f1"] = "idle" THEN "f1" ELSE "f2"

FReturn(f) ==
    /\ fpc' = [fpc EXCEPT ![f] = "idle"]
    /\ fHash' = [fHash EXCEPT ![f] = 0]
    /\ fStatus' = [fStatus EXCEPT ![f] = "none"]
    /\ fSuccess' = [fSuccess EXCEPT ![f] = FALSE]

FGoto(f, label) ==
    /\ fpc' = [fpc EXCEPT ![f] = label]
    /\ UNCHANGED <<fHash, fStatus, fSuccess>>

StatusBranch_ProvedFinalizes(status) ==
    CASE status \in {ProvingTaskUnassigned, ProvingTaskAssigned} -> "return"
      [] status \in {ProvingTaskFailed, ProvingTaskSkipped} -> "skip"
      [] status \in {ProvingTaskVerified, ProvingTaskProved} -> "finalize"
      [] OTHER -> "unreachable"

\* The switch on batch.ProvingStatus.
StatusBranch(status) ==
    CASE status \in {ProvingTaskUnassigned, ProvingTaskAssigned} -> "return"
      [] status = ProvingTaskProved -> "return"
      [] status \in {ProvingTaskFailed, ProvingTaskSkipped} -> "skip"
      [] status = ProvingTaskVerified -> "finalize"
      [] OTHER -> "unreachable"

\* The rollup statuses after db.UpdateSkippedBatches(): `swept` says whether
\* the bulk update went through (on an error the function continues anyway).
AfterSweep(swept) ==
    [b \in Batches |->
        IF swept /\ b \in SkippedBatches(rollupStatus, provingStatus)
        THEN RollupFinalizationSkipped ELSE rollupStatus[b]]

\* ProcessCommittedBatches up to the end of the switch's first three cases:
\* db.UpdateSkippedBatches(), db.GetCommittedBatches(1) (an error or no
\* committed batch returns), db.GetBlockBatches(hash) (an error or no row
\* returns) and the switch on batch.ProvingStatus; the case of a failed or
\* skipped proof writes RollupFinalizationSkipped and returns, the case of a
\* verified one goes on.
FinalizeBegin(f) ==
    /\ fpc[f] = "idle"
    /\ f = FreeSlot
    /\ \E swept \in BOOLEAN :
          \/ /\ rollupStatus' = AfterSweep(swept)
             /\ FReturn(f)
             /\ UNCHANGED dbFailures
          \/ /\ CommittedBatches(AfterSweep(swept)) # {}
             /\ LET hash == Oldest(CommittedBatches(AfterSweep(swept)))
                    status == provingStatus[hash]
                IN CASE StatusBranch(status) = "skip" ->
                          /\ \/ /\ rollupStatus' =
                                      SetStatus(AfterSweep(swept), hash,
                                                RollupFinalizationSkipped)
                                /\ UNCHANGED dbFailures
                             \/ /\ DbError
                                /\ rollupStatus' = AfterSweep(swept)
                          /\ FReturn(f)
                     [] StatusBranch(status) = "finalize" ->
                          /\ rollupStatus' = AfterSweep(swept)
                          /\ fHash' = [fHash EXCEPT ![f] = hash]
                          /\ fStatus' = [fStatus EXCEPT ![f] = status]
                          /\ fpc' = [fpc EXCEPT ![f] = "rate"]
                          /\ UNCHANGED <<fSuccess, dbFailures>>
                     [] OTHER ->
                          /\ rollupStatus' = AfterSweep(swept)
                          /\ FReturn(f)
                          /\ UNCHANGED dbFailures
    /\ UNCHANGED <<provingStatus, commitTxHash, finalizeTxHash,
                   registryVars, senderVars, commitVars, confirmVars,
                   observeVars>>

TooSoon_Never(b, prev, saturates) == FALSE

\* uint64(batch.CreatedAt.Sub(*previousBatch.CreatedAt).Seconds()) <
\* FinalizeBatchIntervalSec.  The conversion of a negative float64 to uint64
\* is implementation-dependent: it saturates to 0 or wraps to a value above
\* 2^63, and `saturates` says which.
TooSoon(b, prev, saturates) ==
    IF CreatedAt(b) >= CreatedAt(prev)
    THEN CreatedAt(b) - CreatedAt(prev) < FinalizeBatchIntervalSec
    ELSE saturates /\ 0 < FinalizeBatchIntervalSec

\* What the rate-limit step of ProcessCommittedBatches leaves alone.
FinalizeRateFrame ==
    UNCHANGED <<provingStatus, commitTxHash, finalizeTxHash, registryVars,
                senderVars, commitVars, confirmVars, observeVars>>

\* db.GetLatestFinalizingOrFinalizedBatch() returns an error other than "no
\* rows": logged, return.  The deferred guard is not registered yet.
RateLookupFails(f) ==
    /\ fpc[f] = "rate"
    /\ FReturn(f)
    /\ UNCHANGED <<rollupStatus, dbFailures>>
    /\ FinalizeRateFrame

\* The lookup returns "no rows": there is no previous batch to compare with.
RateNoPrevious(f) ==
    /\ fpc[f] = "rate"
    /\ FinalizingOrFinalized(rollupStatus) = {}
    /\ FGoto(f, "send")
    /\ UNCHANGED <<rollupStatus, dbFailures>>
    /\ FinalizeRateFrame

\* The lookup returns the previous batch and this one was created too soon
\* after it: db.UpdateRollupStatus(hash, RollupFinalizationSkipped) (an error
\* is logged) and return.
RateTooSoon(f) ==
    /\ fpc[f] = "rate"
    /\ FinalizingOrFinalized(rollupStatus) # {}
    /\ \E saturates \in BOOLEAN :
          TooSoon(fHash[f], Latest(FinalizingOrFinalized(rollupStatus)),
                  saturates)
    /\ UpdateRollupStatus(fHash[f], RollupFinalizationSkipped)
    /\ FReturn(f)
    /\ FinalizeRateFrame

\* The lookup returns the previous batch and the interval has passed.
RateIntervalPassed(f) ==
    /\ fpc[f] = "rate"
    /\ FinalizingOrFinalized(rollupStatus) # {}
    /\ \E saturates \in BOOLEAN :
          ~TooSoon(fHash[f], Latest(FinalizingOrFinalized(rollupStatus)),
                   saturates)
    /\ FGoto(f, "send")
    /\ UNCHANGED <<rollupStatus, dbFailures>>
    /\ FinalizeRateFrame

\* db.GetLatestFinalizingOrFinalizedBatch() and the tests on its result.
FinalizeRateLimit(f) ==
    \/ RateLookupFails(f)
    \/ RateNoPrevious(f)
    \/ RateTooSoon(f)
    \/ RateIntervalPassed(f)

\* A buffer that db.GetVerifiedProofAndInstanceCommitmentsByHash returns is
\* nil (length -1 here) or has a length in bytes.
NilBuffer == 0 - 1
BufferLengths == {NilBuffer, 31, 32, 64}

\* The checks on proofBuffer and icBuffer before the call is packed.
BuffersReady(proofLen, icLen) ==
    /\ proofLen # NilBuffer
    /\ icLen # NilBuffer
    /\ proofLen % 32 = 0
    /\ icLen % 32 = 0

\* The number of finalize transactions the sender has accepted.
RECURSIVE SumUpTo(_, _)
SumUpTo(count, n) == IF n = 0 THEN 0 ELSE count[n] + SumUpTo(count, n - 1)
AcceptedTotal == SumUpTo(finalizeAccepted, NumBatches)

\* What a finalize SendTransaction call adds to the observed calls.
NoteFinalizeCall(f) ==
    callsUnverified' =
        IF fStatus[f] = ProvingTaskVerified THEN callsUnverified
        ELSE callsUnverified \cup {[hash |-> fHash[f], proving |-> fStatus[f]]}

DeferredGuard_Off(f) ==
    /\ FReturn(f)
    /\ UNCHANGED <<rollupStatus, dbFailures>>

\* The deferred function of ProcessCommittedBatches when it finds success
\* false: db.UpdateRollupStatus(hash, RollupFinalizationSkipped), whose error
\* is logged; then the invocation is over.
DeferredGuard(f) ==
    /\ UpdateRollupStatus(fHash[f], RollupFinalizationSkipped)
    /\ FReturn(f)

\* What ProcessCommittedBatches leaves alone from the fetch of the proof to
\* the return of SendTransaction.
FinalizeSendFrame ==
    UNCHANGED <<provingStatus, commitTxHash, finalizeTxHash, registryVars,
                commitVars, confirmVars>>

\* db.GetVerifiedProofAndInstanceCommitmentsByHash returns an error: logged,
\* return, and the deferred guard runs.
FinalizeFetchFails(f) ==
    /\ fpc[f] = "send"
    /\ DeferredGuard(f)
    /\ UNCHANGED <<senderVars, observeVars>>
    /\ FinalizeSendFrame

\* A buffer is nil, or its length is not a multiple of 32: logged, return,
\* and the deferred guard runs.
FinalizeBuffersNotReady(f) ==
    /\ fpc[f] = "send"
    /\ \E p \in BufferLengths, i \in BufferLengths : ~BuffersReady(p, i)
    /\ DeferredGuard(f)
    /\ UNCHANGED <<senderVars, observeVars>>
    /\ FinalizeSendFrame

\* r.l1RollupABI.Pack("finalizeBatchWithProof", ...) fails: logged, return,
\* and the deferred guard runs.
FinalizePackFails(f) ==
    /\ fpc[f] = "send"
    /\ \E p \in BufferLengths, i \in BufferLengths : BuffersReady(p, i)
    /\ DeferredGuard(f)
    /\ UNCHANGED <<senderVars, observeVars>>
    /\ FinalizeSendFrame

\* rollupSender.SendTransaction(hash + "-finalize", ...) returns an error:
\* return, and the deferred guard runs.
FinalizeSendRejected(f, err) ==
    /\ fpc[f] = "send"
    /\ err \in SendErrors
    /\ \E p \in BufferLengths, i \in BufferLengths : BuffersReady(p, i)
    /\ NoteFinalizeCall(f)
    /\ DeferredGuard(f)
    /\ UNCHANGED <<senderVars, finalizeAccepted>>
    /\ FinalizeSendFrame

\* rollupSender.SendTransaction(hash + "-finalize", ...) returns a
\* transaction hash.
FinalizeSendAccepted(f) ==
    /\ fpc[f] = "send"
    /\ \E p \in BufferLengths, i \in BufferLengths : BuffersReady(p, i)
    /\ SenderMayAccept(FinalizeTxID(fHash[f]))
    /\ AcceptedTotal < MaxFinalizeTx
    /\ pendingTxs' = pendingTxs \cup {FinalizeTxID(fHash[f])}
    /\ NoteFinalizeCall(f)
    /\ finalizeAccepted' = [finalizeAccepted EXCEPT ![fHash[f]] = @ + 1]
    /\ FGoto(f, "record")
    /\ UNCHANGED <<rollupStatus, dbFailures>>
    /\ FinalizeSendFrame

\* With the deferred guard armed: fetch the proof and the instance
\* commitments, check them, pack finalizeBatchWithProof and call
\* rollupSender.SendTransaction.
FinalizeSend(f) ==
    \/ FinalizeFetchFails(f)
    \/ FinalizeBuffersNotReady(f)
    \/ FinalizePackFails(f)
    \/ \E err \in SendErrors : FinalizeSendRejected(f, err)
    \/ FinalizeSendAccepted(f)

\* db.UpdateFinalizeTxHashAndRollupStatus(hash, txHash, RollupFinalizing); its
\* error is logged; success = true
FinalizeRecord(f) ==
    /\ fpc[f] = "record"
    /\ UpdateFinalizeTxHashAndRollupStatus(
          fHash[f], SentTxHash(FinalizeTxID(fHash[f])), RollupFinalizing)
    /\ fSuccess' = [fSuccess EXCEPT ![f] = TRUE]
    /\ fpc' = [fpc EXCEPT ![f] = "store"]
    /\ UNCHANGED <<provingStatus, commitTxHash, registryVars, senderVars,
                   commitVars, fHash, fStatus, confirmVars, observeVars>>

\* r.processingFinalization.Store(txID, hash); the guard finds success true.
FinalizeStore(f) ==
    /\ fpc[f] = "store"
    /\ processingFinalization' =
          MapStore(processingFinalization, FinalizeTxID(fHash[f]), fHash[f])
    /\ FReturn(f)
    /\ UNCHANGED <<dbVars, processingMessage, processingBatchesCommitment,
                   senderVars, commitVars, confirmVars, observeVars>>

\* ------------------------------------------------------------------------
\* handleConfirmLoop and handleConfirmation
\* ------------------------------------------------------------------------

\* case confirmation := <-r.rollupSender.ConfirmChan(): the sender reports a
\* pending transaction as confirmed, successful or not.
ConfirmReceive ==
    /\ hpc = "idle"
    /\ \E id \in pendingTxs, ok \in BOOLEAN :
          /\ pendingTxs' = pendingTxs \ {id}
          /\ cfm' = [id |-> id, ok |-> ok]
    /\ hpc' = "handle"
    /\ UNCHANGED <<dbVars, registryVars, commitVars, finalizeVars, observeVars>>

\* The IDs held by some registry.
Registered ==
    (DOMAIN processingMessage) \cup (DOMAIN processingBatchesCommitment)
        \cup (DOMAIN processingFinalization)

\* The batch the ID of a finalize transaction names.
FinalizeTxBatch(id) == id.hashes[1]

Reconcile_AlwaysSuccessful(commitHashes, finalHashes) ==
    /\ LET commitStatus == RollupCommitted
           finalStatus == RollupFinalized
       IN \E okC \in SUBSET commitHashes, okF \in SUBSET finalHashes :
             LET failed == Cardinality(commitHashes \ okC)
                           + Cardinality(finalHashes \ okF) IN
             /\ dbFailures + failed <= MaxDbFailures
             /\ dbFailures' = dbFailures + failed
             /\ rollupStatus' = [b \in Batches |->
                   IF b \in okF THEN finalStatus
                   ELSE IF b \in okC THEN commitStatus
                   ELSE rollupStatus[b]]
             /\ commitTxHash' = [b \in Batches |->
                   IF b \in okC THEN ConfirmedTxHash(cfm.id)
                   ELSE commitTxHash[b]]
             /\ finalizeTxHash' = [b \in Batches |->
                   IF b \in okF THEN ConfirmedTxHash(cfm.id)
                   ELSE finalizeTxHash[b]]
    /\ processingMessage' = MapDelete(processingMessage, cfm.id)
    /\ processingBatchesCommitment' = MapDelete(processingBatchesCommitment, cfm.id)
    /\ processingFinalization' = MapDelete(processingFinalization, cfm.id)
    /\ hpc' = "idle"
    /\ cfm' = None
    /\ UNCHANGED <<provingStatus, senderVars, commitVars, finalizeVars,
                   observeVars>>

\* The body of handleConfirmation for a confirmation that hit the commit
\* registry with these batches and the finalize registry with those: the
\* status updates (each may fail and is then only logged) and the Deletes.
Reconcile(commitHashes, finalHashes) ==
    /\ LET commitStatus == IF cfm.ok THEN RollupCommitted ELSE RollupCommitFailed
           finalStatus == IF cfm.ok THEN RollupFinalized ELSE RollupFinalizeFailed
       IN \E okC \in SUBSET commitHashes, okF \in SUBSET finalHashes :
             LET failed == Cardinality(commitHashes \ okC)
                           + Cardinality(finalHashes \ okF) IN
             /\ dbFailures + failed <= MaxDbFailures
             /\ dbFailures' = dbFailures + failed
             /\ rollupStatus' = [b \in Batches |->
                   IF b \in okF THEN finalStatus
                   ELSE IF b \in okC THEN commitStatus
                   ELSE rollupStatus[b]]
             /\ commitTxHash' = [b \in Batches |->
                   IF b \in okC THEN ConfirmedTxHash(cfm.id)
                   ELSE commitTxHash[b]]
             /\ finalizeTxHash' = [b \in Batches |->
                   IF b \in okF THEN ConfirmedTxHash(cfm.id)
                   ELSE finalizeTxHash[b]]
    /\ processingMessage' = MapDelete(processingMessage, cfm.id)
    /\ processingBatchesCommitment' = MapDelete(processingBatchesCommitment, cfm.id)
    /\ processingFinalization' = MapDelete(processingFinalization, cfm.id)
    /\ hpc' = "idle"
    /\ cfm' = None
    /\ UNCHANGED <<provingStatus, senderVars, commitVars, finalizeVars,
                   observeVars>>

handleConfirmation_IgnoresMiss ==
    /\ hpc = "handle"
    /\ Reconcile(IF cfm.id.kind = "commit" THEN SeqRange(cfm.id.hashes) ELSE {},
                 IF cfm.id.kind = "finalize" THEN {FinalizeTxBatch(cfm.id)} ELSE {})

\* handleConfirmation: for each of the three registries the Load and, on a
\* hit, the status updates and the Delete.  A confirmation that hits no
\* registry is logged as "Unknown".
handleConfirmation ==
    /\ hpc = "handle"
    /\ Reconcile(IF MapHas(processingBatchesCommitment, cfm.id)
                 THEN SeqRange(processingBatchesCommitment[cfm.id]) ELSE {},
                 IF MapHas(processingFinalization, cfm.id)
                 THEN {processingFinalization[cfm.id]} ELSE {})

\* ------------------------------------------------------------------------
\* Chunk traces: proveChunk and getSortedTracesByHashes
\* ------------------------------------------------------------------------

\* The lists of block hashes a chunk task can carry, in any order and with
\* repetitions.
HashLists == UNION {[1..n -> BlockHashes] : n \in 0..MaxBlocks}

\* traces = append(traces, trace) for each hash, in the order of the list.
FetchedTraces(hashes, numbers) ==
    [k \in DOMAIN hashes |-> BlockTrace(hashes[k], numbers[hashes[k]])]

TraceLess_Descending(a, b) == a.number > b.number

\* The less function handed to sort.Slice.
TraceLess(a, b) == a.number < b.number

\* One step of the insertion sort sort.Slice runs on a short slice: x is
\* moved down past every element it is less than.
RECURSIVE InsertTrace(_, _)
InsertTrace(sorted, x) ==
    IF sorted = <<>> THEN <<x>>
    ELSE IF TraceLess(x, sorted[Len(sorted)])
         THEN Append(InsertTrace(SubSeq(sorted, 1, Len(sorted) - 1), x),
                     sorted[Len(sorted)])
         ELSE Append(sorted, x)

\* sort.Slice(traces, less)
RECURSIVE SortTraces(_)
SortTraces(traces) ==
    IF traces = <<>> THEN <<>>
    ELSE InsertTrace(SortTraces(SubSeq(traces, 1, Len(traces) - 1)),
                     traces[Len(traces)])

\* The pair (nil, err), and the call that was not made.
NoTraces == [ok |-> FALSE, traces |-> <<>>]

InitTraces ==
    /\ tpc = "call"
    /\ blockHashes \in HashLists
    /\ headerNumber \in [BlockHashes -> BlockNumbers]
    /\ failAt \in 0..MaxBlocks
    /\ sortedTraces = NoTraces
    /\ engineTraces = NoTraces

\* The trace variables of a run that proves no chunk.
IdleTraces ==
    /\ tpc = "done"
    /\ blockHashes = <<>>
    /\ headerNumber = [h \in BlockHashes |-> h]
    /\ failAt = 0
    /\ sortedTraces = NoTraces
    /\ engineTraces = NoTraces

\* getSortedTracesByHashes(blockHashes): the fetch loop returns the first
\* error; otherwise the traces are sorted by header number.
getSortedTracesByHashes ==
    /\ tpc = "call"
    /\ sortedTraces' =
          IF failAt \in DOMAIN blockHashes THEN NoTraces
          ELSE [ok |-> TRUE,
                traces |-> SortTraces(FetchedTraces(blockHashes, headerNumber))]
    /\ tpc' = "sorted"
    /\ UNCHANGED <<blockHashes, headerNumber, failAt, engineTraces>>

\* proveChunk after getSortedTracesByHashes: an error returns "get traces
\* from eth node failed", otherwise proverCore.ProveChunk(id, traces).
proveChunk ==
    /\ tpc = "sorted"
    /\ engineTraces' = sortedTraces
    /\ tpc' = "done"
    /\ UNCHANGED <<blockHashes, headerNumber, failAt, sortedTraces>>

\* ------------------------------------------------------------------------
\* ProcessGasPriceOracle and the gas oracle branch of handleConfirmLoop
\* ------------------------------------------------------------------------

\* expectedDelta := r.lastGasPrice * r.gasPriceDiff / gasPriceDiffPrecision
ExpectedDelta(last, diff) ==
    ((last * diff) % WordModulus) \div GasPriceDiffPrecision

\* The condition of the update branch, in uint64 arithmetic:
\* r.lastGasPrice == 0 || (new >= r.minGasPrice &&
\*    (new >= r.lastGasPrice+expectedDelta || new <= r.lastGasPrice-expectedDelta))
ShouldUpdate(last, new, min, diff) ==
    \/ last = 0
    \/ /\ new >= min
       /\ \/ new >= (last + ExpectedDelta(last, diff)) % WordModulus
          \/ new <= (last - ExpectedDelta(last, diff)) % WordModulus

\* db.UpdateL2GasOracleStatusAndOracleTxHash(ctx, hash, status, txHash)
UpdateL2GasOracleStatusAndOracleTxHash(hash, status, txHash) ==
    \/ /\ gasOracleStatus' = [gasOracleStatus EXCEPT ![hash] = status]
       /\ oracleTxHash' = [oracleTxHash EXCEPT ![hash] = txHash]
       /\ UNCHANGED oracleDbFailures
    \/ /\ oracleDbFailures < MaxDbFailures
       /\ oracleDbFailures' = oracleDbFailures + 1
       /\ UNCHANGED <<gasOracleStatus, oracleTxHash>>

\* gasOracleSender.SendTransaction may accept a transaction whose ID is not
\* among its pending ones; it can always reject.
GasSenderMayAccept(id) == id \notin gasPendingTxs

\* NewLayer2Relayer with a GasOracleConfig, on a store whose first batch is
\* pending for the oracle.
GasOracleStart ==
    /\ gasOracleStatus = [b \in Batches |-> GasOraclePending]
    /\ oracleTxHash = [b \in Batches |-> None]
    /\ latestBatch = 1
    /\ oracleDbFailures = 0
    /\ lastGasPrice = 0
    /\ gasPendingTxs = {}
    /\ gpc = "idle"
    /\ gHash = 0
    /\ gPrice = 0
    /\ gAttempt = FALSE

InitGasOracle ==
    /\ GasOracleStart
    /\ minGasPrice = 1
    /\ gasPriceDiff = 1

\* The relayer with any configuration, after any number of updates: any last
\* applied price.
InitGasRule ==
    /\ gasOracleStatus = [b \in Batches |-> GasOraclePending]
    /\ oracleTxHash = [b \in Batches |-> None]
    /\ latestBatch = 1
    /\ oracleDbFailures = 0
    /\ lastGasPrice \in Uint64Values
    /\ minGasPrice \in Uint64Values
    /\ gasPriceDiff \in Uint64Values
    /\ gasPendingTxs = {}
    /\ gpc = "idle"
    /\ gHash = 0
    /\ gPrice = 0
    /\ gAttempt = FALSE

\* The batch proposer inserts the next batch; its oracle status is pending.
BatchInserted ==
    /\ latestBatch < NumBatches
    /\ latestBatch' = latestBatch + 1
    /\ UNCHANGED <<gasOracleStatus, oracleTxHash, oracleDbFailures,
                   lastGasPrice, minGasPrice, gasPriceDiff, gasPendingTxs,
                   gpc, gHash, gPrice, gAttempt>>

\* ProcessGasPriceOracle up to the price: db.GetLatestBatch() (an error
\* returns), the test of batch.OracleStatus (not pending: nothing to do) and
\* l2Client.SuggestGasPrice (an error returns).
GasOracleFetch ==
    /\ gpc = "idle"
    /\ \/ UNCHANGED <<gpc, gHash, gPrice, gAttempt>>
       \/ /\ gasOracleStatus[latestBatch] = GasOraclePending
          /\ \E price \in Uint64Values :
                /\ gPrice' = price
                /\ gHash' = latestBatch
                /\ gpc' = "rule"
                /\ gAttempt' = FALSE
    /\ UNCHANGED <<gasOracleStatus, oracleTxHash, latestBatch,
                   oracleDbFailures, lastGasPrice, minGasPrice, gasPriceDiff,
                   gasPendingTxs>>

\* The invocation of ProcessGasPriceOracle returns.
GReturn ==
    /\ gpc' = "idle"
    /\ gHash' = 0
    /\ gPrice' = 0

\* What ProcessGasPriceOracle leaves alone up to the return of
\* SendTransaction.
GasOracleSendFrame ==
    UNCHANGED <<gasOracleStatus, oracleTxHash, latestBatch, oracleDbFailures,
                lastGasPrice, minGasPrice, gasPriceDiff>>

\* The condition of the update branch is false: nothing to do.
GasOracleNoUpdate ==
    /\ gpc = "rule"
    /\ ~ShouldUpdate(lastGasPrice, gPrice, minGasPrice, gasPriceDiff)
    /\ gAttempt' = FALSE
    /\ GReturn
    /\ UNCHANGED gasPendingTxs
    /\ GasOracleSendFrame

\* The update branch: l2GasOracleABI.Pack("setL2BaseFee", ...) fails.
GasOraclePackFails ==
    /\ gpc = "rule"
    /\ ShouldUpdate(lastGasPrice, gPrice, minGasPrice, gasPriceDiff)
    /\ gAttempt' = TRUE
    /\ GReturn
    /\ UNCHANGED gasPendingTxs
    /\ GasOracleSendFrame

\* The update branch: gasOracleSender.SendTransaction(batch.Hash, ...)
\* returns an error.
GasOracleSendRejected(err) ==
    /\ gpc = "rule"
    /\ err \in SendErrors
    /\ ShouldUpdate(lastGasPrice, gPrice, minGasPrice, gasPriceDiff)
    /\ gAttempt' = TRUE
    /\ GReturn
    /\ UNCHANGED gasPendingTxs
    /\ GasOracleSendFrame

\* The update branch: gasOracleSender.SendTransaction(batch.Hash, ...)
\* returns a transaction hash.
GasOracleSendAccepted ==
    /\ gpc = "rule"
    /\ ShouldUpdate(lastGasPrice, gPrice, minGasPrice, gasPriceDiff)
    /\ GasSenderMayAccept(gHash)
    /\ gasPendingTxs' = gasPendingTxs \cup {gHash}
    /\ gAttempt' = TRUE
    /\ gpc' = "record"
    /\ UNCHANGED <<gHash, gPrice>>
    /\ GasOracleSendFrame

\* ProcessGasPriceOracle from the rule to the return of SendTransaction.
GasOracleSend ==
    \/ GasOracleNoUpdate
    \/ GasOraclePackFails
    \/ \E err \in SendErrors : GasOracleSendRejected(err)
    \/ GasOracleSendAccepted

\* db.UpdateL2GasOracleStatusAndOracleTxHash(hash, GasOracleImporting, txHash):
\* on an error the invocation returns; otherwise r.lastGasPrice takes the
\* suggested price.
GasOracleRecord ==
    /\ gpc = "record"
    /\ UpdateL2GasOracleStatusAndOracleTxHash(gHash, GasOracleImporting,
                                              SentTxHash(gHash))
    /\ lastGasPrice' =
          IF oracleDbFailures' = oracleDbFailures THEN gPrice
          ELSE lastGasPrice
    /\ GReturn
    /\ UNCHANGED <<latestBatch, minGasPrice, gasPriceDiff, gasPendingTxs,
                   gAttempt>>

\* case cfm := <-r.gasOracleSender.ConfirmChan(): the sender reports a
\* pending transaction as confirmed, and the loop writes GasOracleImported or
\* GasOracleFailed for the batch whose hash is cfm.ID; an error of the write
\* is logged.
GasOracleConfirm ==
    /\ \E id \in gasPendingTxs, isSuccessful \in BOOLEAN :
          /\ gasPendingTxs' = gasPendingTxs \ {id}
          /\ UpdateL2GasOracleStatusAndOracleTxHash(
                id,
                IF isSuccessful THEN GasOracleImported ELSE GasOracleFailed,
                ConfirmedTxHash(id))
    /\ UNCHANGED <<latestBatch, lastGasPrice, minGasPrice, gasPriceDiff,
                   gpc, gHash, gPrice, gAttempt>>

\* ------------------------------------------------------------------------
\* ProveLoop and Stop
\* ------------------------------------------------------------------------

\* NewProver: isClosed is 0, stopChan is open, the stack is open; Start has
\* launched ProveLoop.
InitStop ==
    /\ isClosed = 0
    /\ stopChanCloses = 0
    /\ stackCloses = 0
    /\ spc = [t \in Stoppers |-> "idle"]
    /\ stopCalls = 0
    /\ lpc = "select"

\* close(r.stopChan) on a closed channel panics and the process dies.
Panicked == stopChanCloses > 1

\* ProveLoop's select: a closed stopChan makes the loop return, otherwise the
\* default case calls proveAndSubmit.
LoopSelect ==
    /\ ~Panicked
    /\ lpc = "select"
    /\ lpc' = IF stopChanCloses > 0 THEN "returned" ELSE "run"
    /\ UNCHANGED <<isClosed, stopChanCloses, stackCloses, spc, stopCalls>>

\* A step of the proveAndSubmit call ProveLoop made; when the call returns
\* the loop is back at its select.
LoopRuns(step) ==
    /\ ~Panicked
    /\ lpc = "run"
    /\ step
    /\ lpc' = IF pc' = "loop" THEN "select" ELSE "run"
    /\ UNCHANGED <<isClosed, stopChanCloses, stackCloses, spc, stopCalls>>

\* Stop: if atomic.LoadInt64(&r.isClosed) == 1 { return }
StopLoad(t) ==
    /\ ~Panicked
    /\ spc[t] = "idle"
    /\ stopCalls < MaxStopCalls
    /\ stopCalls' = stopCalls + 1
    /\ spc' = [spc EXCEPT ![t] = IF isClosed = 1 THEN "idle" ELSE "store"]
    /\ UNCHANGED <<isClosed, stopChanCloses, stackCloses, lpc>>

\* Stop: atomic.StoreInt64(&r.isClosed, 1)
StopStore(t) ==
    /\ ~Panicked
    /\ spc[t] = "store"
    /\ isClosed' = 1
    /\ spc' = [spc EXCEPT ![t] = "close"]
    /\ UNCHANGED <<stopChanCloses, stackCloses, stopCalls, lpc>>

\* Stop: close(r.stopChan)
StopCloseChan(t) ==
    /\ ~Panicked
    /\ spc[t] = "close"
    /\ stopChanCloses' = stopChanCloses + 1
    /\ spc' = [spc EXCEPT ![t] = "stack"]
    /\ UNCHANGED <<isClosed, stackCloses, stopCalls, lpc>>

\* Stop: r.stack.Close(), whose error is logged; return.
StopCloseStack(t) ==
    /\ ~Panicked
    /\ spc[t] = "stack"
    /\ stackCloses' = stackCloses + 1
    /\ spc' = [spc EXCEPT ![t] = "idle"]
    /\ UNCHANGED <<isClosed, stopChanCloses, stopCalls, lpc>>

NextProver ==
    \/ PeekTask /\ UNCHANGED <<relayerVars, traceVars, gasVars, stopVars>>
    \/ FetchTask /\ UNCHANGED <<relayerVars, traceVars, gasVars, stopVars>>
    \/ CheckRetry /\ UNCHANGED <<relayerVars, traceVars, gasVars, stopVars>>
    \/ StartProve /\ UNCHANGED <<relayerVars, traceVars, gasVars, stopVars>>
    \/ FinishProve /\ UNCHANGED <<relayerVars, traceVars, gasVars, stopVars>>
    \/ SubmitProof /\ UNCHANGED <<relayerVars, traceVars, gasVars, stopVars>>
    \/ DeleteTask /\ UNCHANGED <<relayerVars, traceVars, gasVars, stopVars>>
    \/ Crash /\ UNCHANGED <<relayerVars, traceVars, gasVars, stopVars>>

NextRelayer ==
    \/ ProvingProgress /\ UNCHANGED <<proverVars, traceVars, gasVars, stopVars>>
    \/ CommitSend /\ UNCHANGED <<proverVars, traceVars, gasVars, stopVars>>
    \/ CommitRecord /\ UNCHANGED <<proverVars, traceVars, gasVars, stopVars>>
    \/ CommitStore /\ UNCHANGED <<proverVars, traceVars, gasVars, stopVars>>
    \/ \E f \in Finalizers : FinalizeBegin(f) /\ UNCHANGED <<proverVars, traceVars, gasVars, stopVars>>
    \/ \E f \in Finalizers : FinalizeRateLimit(f) /\ UNCHANGED <<proverVars, traceVars, gasVars, stopVars>>
    \/ \E f \in Finalizers : FinalizeSend(f) /\ UNCHANGED <<proverVars, traceVars, gasVars, stopVars>>
    \/ \E f \in Finalizers : FinalizeRecord(f) /\ UNCHANGED <<proverVars, traceVars, gasVars, stopVars>>
    \/ \E f \in Finalizers : FinalizeStore(f) /\ UNCHANGED <<proverVars, traceVars, gasVars, stopVars>>
    \/ ConfirmReceive /\ UNCHANGED <<proverVars, traceVars, gasVars, stopVars>>
    \/ handleConfirmation /\ UNCHANGED <<proverVars, traceVars, gasVars, stopVars>>

\* No invocation of ProcessCommittedBatches is under way.
NoInvocationRunning == \A g \in Finalizers : fpc[g] = "idle"

\* The relayer when ProcessCommittedBatches is called from one loop only, so
\* that its invocations do not overlap.
NextRelayerSequential ==
    \/ ProvingProgress /\ UNCHANGED <<proverVars, traceVars, gasVars, stopVars>>
    \/ CommitSend /\ UNCHANGED <<proverVars, traceVars, gasVars, stopVars>>
    \/ CommitRecord /\ UNCHANGED <<proverVars, traceVars, gasVars, stopVars>>
    \/ CommitStore /\ UNCHANGED <<proverVars, traceVars, gasVars, stopVars>>
    \/ \E f \in Finalizers :
          NoInvocationRunning /\ FinalizeBegin(f)
             /\ UNCHANGED <<proverVars, traceVars, gasVars, stopVars>>
    \/ \E f \in Finalizers : FinalizeRateLimit(f) /\ UNCHANGED <<proverVars, traceVars, gasVars, stopVars>>
    \/ \E f \in Finalizers : FinalizeSend(f) /\ UNCHANGED <<proverVars, traceVars, gasVars, stopVars>>
    \/ \E f \in Finalizers : FinalizeRecord(f) /\ UNCHANGED <<proverVars, traceVars, gasVars, stopVars>>
    \/ \E f \in Finalizers : FinalizeStore(f) /\ UNCHANGED <<proverVars, traceVars, gasVars, stopVars>>
    \/ ConfirmReceive /\ UNCHANGED <<proverVars, traceVars, gasVars, stopVars>>
    \/ handleConfirmation /\ UNCHANGED <<proverVars, traceVars, gasVars, stopVars>>

\* One chunk task in proveChunk.
NextTraces ==
    \/ getSortedTracesByHashes /\ UNCHANGED <<proverVars, relayerVars, gasVars, stopVars>>
    \/ proveChunk /\ UNCHANGED <<proverVars, relayerVars, gasVars, stopVars>>

\* The gas-price oracle: its updater, the batch proposer and the gas oracle
\* branch of the confirmation loop.
NextGasOracle ==
    \/ BatchInserted /\ UNCHANGED <<proverVars, relayerVars, traceVars, stopVars>>
    \/ GasOracleFetch /\ UNCHANGED <<proverVars, relayerVars, traceVars, stopVars>>
    \/ GasOracleSend /\ UNCHANGED <<proverVars, relayerVars, traceVars, stopVars>>
    \/ GasOracleRecord /\ UNCHANGED <<proverVars, relayerVars, traceVars, stopVars>>
    \/ GasOracleConfirm /\ UNCHANGED <<proverVars, relayerVars, traceVars, stopVars>>

\* One invocation of ProcessGasPriceOracle up to the return of
\* SendTransaction.
NextGasRule ==
    \/ GasOracleFetch /\ UNCHANGED <<proverVars, relayerVars, traceVars, stopVars>>
    \/ GasOracleSend /\ UNCHANGED <<proverVars, relayerVars, traceVars, stopVars>>

Init ==
    InitProver /\ InitRelayer /\ IdleTraces /\ InitGasOracle
       /\ InitStop

\* The prover agent before its first task, with one configuration.
IdleProver == InitProver /\ cfgProofType = ProofTypeChunk

InitRelayerAlone ==
    IdleProver /\ InitRelayer /\ IdleTraces /\ InitGasOracle
       /\ InitStop

InitChunkTask ==
    IdleProver /\ InitRelayer /\ InitTraces /\ InitGasOracle
       /\ InitStop

InitAnyGasConfig ==
    IdleProver /\ InitRelayer /\ IdleTraces /\ InitGasRule
       /\ InitStop

\* proveChunk on every list of block hashes, every assignment of block
\* numbers and every failing fetch.
SpecTraces == InitChunkTask /\ [][NextTraces]_vars

\* The prover agent alone.
SpecProver == Init /\ [][NextProver]_vars

\* The prover agent's loop with threads that call Stop.
NextStop ==
    \/ LoopSelect /\ UNCHANGED <<proverVars, relayerVars, traceVars, gasVars>>
    \/ LoopRuns(PeekTask) /\ UNCHANGED <<relayerVars, traceVars, gasVars>>
    \/ LoopRuns(FetchTask) /\ UNCHANGED <<relayerVars, traceVars, gasVars>>
    \/ LoopRuns(CheckRetry) /\ UNCHANGED <<relayerVars, traceVars, gasVars>>
    \/ LoopRuns(StartProve) /\ UNCHANGED <<relayerVars, traceVars, gasVars>>
    \/ LoopRuns(FinishProve) /\ UNCHANGED <<relayerVars, traceVars, gasVars>>
    \/ LoopRuns(SubmitProof) /\ UNCHANGED <<relayerVars, traceVars, gasVars>>
    \/ LoopRuns(DeleteTask) /\ UNCHANGED <<relayerVars, traceVars, gasVars>>
    \/ \E t \in Stoppers :
          StopLoad(t) /\ UNCHANGED <<proverVars, relayerVars, traceVars, gasVars>>
    \/ \E t \in Stoppers :
          StopStore(t) /\ UNCHANGED <<proverVars, relayerVars, traceVars, gasVars>>
    \/ \E t \in Stoppers :
          StopCloseChan(t) /\ UNCHANGED <<proverVars, relayerVars, traceVars, gasVars>>
    \/ \E t \in Stoppers :
          StopCloseStack(t) /\ UNCHANGED <<proverVars, relayerVars, traceVars, gasVars>>

\* ProveLoop and Stop.
SpecStop == InitRelayerAlone /\ [][NextStop]_vars

\* The relayer with non-overlapping invocations of ProcessCommittedBatches.
SpecRelayerSequential == InitRelayerAlone /\ [][NextRelayerSequential]_vars

\* The gas-price oracle alone.
SpecGasOracle == InitRelayerAlone /\ [][NextGasOracle]_vars

\* The rule of ProcessGasPriceOracle on every last price, suggested price,
\* minimum price and ratio.
SpecGasRule == InitAnyGasConfig /\ [][NextGasRule]_vars

\* The relayer alone: the commit and finalize submitters and the
\* confirmation loop on the rollup sender's channel.
SpecRelayer == InitRelayerAlone /\ [][NextRelayer]_vars

\* ------------------------------------------------------------------------
\* Properties of the prover agent
\* ------------------------------------------------------------------------

\* An iteration of proveAndSubmit has returned (the loop is back at its head
\* and the variables still describe that iteration).
Returned == pc = "loop" /\ taskSrc # "none"

\* C1 (as stated): every iteration that got its task from Peek has called
\* Delete exactly once when it returns, whatever UpdateTimes, proving and
\* submission did.
C1_DeleteOnceWhatever ==
    (Returned /\ taskSrc = "peek") => deleteCalls = 1

\* C1 (amended): an iteration that got its task from Peek has called Delete
\* exactly once when it returns, whatever proving and submission did, unless
\* UpdateTimes failed; then it returns without calling Delete and the stored
\* task is left as it was.
C1_DeleteOnceUnlessPersistFailed ==
    (Returned /\ taskSrc = "peek") =>
        IF updateFailed
        THEN /\ deleteCalls = 0
             /\ stack = [id |-> task.id, type |-> task.type, times |-> acqTimes]
        ELSE deleteCalls = 1

\* A peeked task was proved, its submission was rejected by the coordinator,
\* and Delete was still called once.
C1_Witness ==
    /\ Returned
    /\ taskSrc = "peek"
    /\ iterProveCalls = 1
    /\ submitErr = "errCode"
    /\ deleteCalls = 1

\* C2: for a task with retry count n <= 2 the count n+1 is stored before the
\* proving call starts and no proving is started when storing it failed: while
\* prove(task) runs, the stored record of the task carries n+1.
C2_CountPersistedBeforeProving ==
    /\ pc \in {"prove", "proving"} =>
          /\ acqTimes <= 2
          /\ ~updateFailed
          /\ stack = [id |-> task.id, type |-> task.type, times |-> acqTimes + 1]
    /\ updateFailed => (iterProveCalls = 0 /\ iterTraceFetches = 0)

\* A task peeked with count 2 is inside the proof engine, 3 is stored.
C2_Witness ==
    /\ pc = "proving"
    /\ taskSrc = "peek"
    /\ acqTimes = 2
    /\ stack # None
    /\ stack.times = 3

\* C3: for a task with retry count > 2 no proof-engine call and no trace
\* fetch is made, and the detail handed to submission is the fixed failure:
\* ProofError, "zk proving panic", the task's ID and proof type.
C3_PoisonedTaskIsForceFailed ==
    (taskSrc # "none" /\ acqTimes > 2 /\ pc # "check") =>
        /\ iterProveCalls = 0
        /\ iterTraceFetches = 0
        /\ pc \notin {"prove", "proving"}
        /\ proofMsg = [id |-> task.id, type |-> task.type,
                       status |-> StatusProofError, error |-> "zk proving panic",
                       chunkProof |-> FALSE, batchProof |-> FALSE]
        /\ submitted # None =>
              /\ submitted.taskID = task.id
              /\ submitted.proofType = task.type
              /\ submitted.status = StatusProofError
              /\ submitted.error = "zk proving panic"

\* A task with count 3 was submitted as a failure and the iteration returned.
C3_Witness ==
    /\ Returned
    /\ acqTimes = 3
    /\ submitted # None
    /\ submitted.status = StatusProofError
    /\ submitErr = "ok"

\* C4: over any crashes and restarts a task is handed to the proof engine at
\* most 3 times from its acquisition with count 0; the iteration that finds
\* it with count 3 does not prove it, fails it and calls Delete.
C4_AtMostThreeProvingAttempts ==
    /\ \A i \in TaskIDs : proveTotal[i] <= 3 /\ proveCrashes[i] <= proveTotal[i]
    /\ (Returned /\ acqTimes = 3) =>
          /\ iterProveCalls = 0
          /\ proofMsg # None
          /\ proofMsg.status = StatusProofError
          /\ deleteCalls = 1

\* A task crashed the process in three proving attempts, was then failed
\* without proving and removed from the stack.
C4_Witness ==
    /\ Returned
    /\ taskSrc = "peek"
    /\ acqTimes = 3
    /\ proveCrashes[task.id] = 3
    /\ proveTotal[task.id] = 3
    /\ iterProveCalls = 0
    /\ deleteCalls = 1
    /\ stack = None

\* ------------------------------------------------------------------------
\* Settlement relayer: properties
\* ------------------------------------------------------------------------

\* The rollup statuses that end a batch's finalization.
TerminalRollupStatuses ==
    {RollupFinalized, RollupFinalizeFailed, RollupFinalizationSkipped}

\* No submitter is inside a call, the confirmation loop holds no event and
\* the sender has no unconfirmed transaction.
Quiescent ==
    /\ cpc = "idle"
    /\ \A f \in Finalizers : fpc[f] = "idle"
    /\ hpc = "idle"
    /\ pendingTxs = {}

\* C5: ProcessCommittedBatches calls the sender with a finalize transaction
\* only for a batch whose proving status it read as Verified: an invocation
\* that got past the switch read Verified, no SendTransaction call was made
\* on another reading, and every batch with an accepted finalize transaction
\* is a verified one.
C5_FinalizeOnlyVerified ==
    /\ callsUnverified = {}
    /\ \A f \in Finalizers :
          fpc[f] # "idle" => fStatus[f] = ProvingTaskVerified
    /\ \A b \in Batches :
          finalizeAccepted[b] > 0 => provingStatus[b] = ProvingTaskVerified

\* C5 witness: a finalize transaction was accepted for one batch while the
\* other batch, committed too, has a proof that is received but not verified.
C5_Witness ==
    \E f \in Finalizers, b \in Batches :
        /\ fpc[f] = "record"
        /\ finalizeAccepted[fHash[f]] = 1
        /\ b # fHash[f]
        /\ rollupStatus[b] = RollupCommitted
        /\ provingStatus[b] = ProvingTaskProved

\* C6: at most one finalize transaction is submitted to the sender per batch
\* hash, over any sequence of invocations of ProcessCommittedBatches and also
\* when a status write fails after a successful send.
C6_AtMostOneFinalizeTx ==
    \A b \in Batches : finalizeAccepted[b] <= 1

\* C7: every confirmation of a transaction the rollup sender accepted finds
\* its correlation ID in a registry when handleConfirmation looks it up.
C7_ConfirmationFindsEntry ==
    [][(hpc = "handle" /\ hpc' = "idle") => cfm.id \in Registered]_vars

\* C8: no batch stays Committing or Finalizing forever.  Once the relayer is
\* quiescent nothing is left that could write the batch's status, so a batch
\* that is in flight then stays in flight.
C8_NoBatchLeftInFlight ==
    Quiescent =>
        \A b \in Batches : rollupStatus[b] \notin {RollupCommitting, RollupFinalizing}

\* C9: once a batch's rollup status is Finalized, FinalizeFailed or
\* FinalizationSkipped, no later write of ProcessCommittedBatches (its sweep
\* included) or of handleConfirmation changes it to a different value.
C9_TerminalStatusIsKept ==
    [][cpc' = cpc =>
          \A b \in Batches :
              rollupStatus[b] \in TerminalRollupStatuses
                  => rollupStatus'[b] = rollupStatus[b]]_vars

\* C10: an ID leaves a registry only in the handling of one confirmation that
\* carries it, and the handling of a confirmation whose ID no registry holds
\* (a second event after the removal) writes nothing to the store and changes
\* no registry.
C10_RemovedOnceDuplicateIsNoOp ==
    [][/\ \A id \in Registered \ Registered' :
             /\ hpc = "handle"
             /\ hpc' = "idle"
             /\ cfm.id = id
       /\ (hpc = "handle" /\ hpc' = "idle" /\ cfm.id \notin Registered)
             => UNCHANGED <<dbVars, registryVars>>]_vars

\* C10 witness: the second confirmation for a batch's finalize ID is in hand
\* after the first one removed the entry and settled the batch.
C10_Witness ==
    /\ hpc = "handle"
    /\ cfm.id.kind = "finalize"
    /\ cfm.id \notin Registered
    /\ finalizeAccepted[FinalizeTxBatch(cfm.id)] = 2
    /\ rollupStatus[FinalizeTxBatch(cfm.id)] = RollupFinalized
    /\ finalizeTxHash[FinalizeTxBatch(cfm.id)] = ConfirmedTxHash(cfm.id)

\* C18: a ProofDetail that prove returns with status Ok has exactly one of
\* chunkProof and batchProof populated, the one of the detail's proof type,
\* for every task type and every configured proof type.
C18_ExactlyOneProofWhenOk ==
    (pc = "submit" /\ proofMsg.status = StatusOk) =>
        /\ proofMsg.chunkProof # proofMsg.batchProof
        /\ proofMsg.chunkProof <=> (proofMsg.type = ProofTypeChunk)

\* C20: the coordinator is asked for a task only after Peek reported the
\* empty queue, and an iteration ended by a Peek error or by a failed fetch
\* has issued no UpdateTimes, no Delete, no proving call and no submission
\* and leaves the queue as it was.
C20_FetchOnlyWhenEmptyFailuresLeaveNoTrace ==
    [][/\ pc' = "fetch" => (pc = "loop" /\ stack = None /\ stack' = None)
       /\ (pc' = "loop" /\ iterErr' # "none") =>
             /\ pc \in {"loop", "fetch"}
             /\ stack' = stack
             /\ ~updateFailed'
             /\ deleteCalls' = 0
             /\ iterProveCalls' = 0
             /\ iterTraceFetches' = 0
             /\ submitted' = None
             /\ proveTotal' = proveTotal
             /\ nextTaskID' = nextTaskID]_vars

\* C20 witness: Peek failed on a queue that holds a task already counted
\* once, and the task is still there.
C20_Witness ==
    /\ pc = "loop"
    /\ iterErr = "peek"
    /\ stack # None
    /\ stack.times >= 1

\* The number of occurrences of trace x in the list.
RECURSIVE Occurrences(_, _)
Occurrences(traces, x) ==
    IF traces = <<>> THEN 0
    ELSE (IF traces[Len(traces)] = x THEN 1 ELSE 0)
         + Occurrences(SubSeq(traces, 1, Len(traces) - 1), x)

\* C19: for every list of block hashes, ProveChunk is handed exactly the
\* traces of those hashes, in ascending order of block height; when a trace
\* fetch fails ProveChunk is not called.
C19_TracesSortedByHeight ==
    tpc = "done" =>
        IF failAt \in DOMAIN blockHashes
        THEN ~engineTraces.ok
        ELSE /\ engineTraces.ok
             /\ Len(engineTraces.traces) = Len(blockHashes)
             /\ \A i, j \in DOMAIN engineTraces.traces :
                   i < j => engineTraces.traces[i].number
                                <= engineTraces.traces[j].number
             /\ \A h \in BlockHashes :
                   Occurrences(engineTraces.traces,
                               BlockTrace(h, headerNumber[h]))
                       = Occurrences(blockHashes, h)

\* C19 witness: three distinct blocks listed in an order that is neither
\* ascending nor descending were handed to the engine.
C19_Witness ==
    /\ tpc = "done"
    /\ engineTraces.ok
    /\ Len(blockHashes) = 3
    /\ headerNumber[blockHashes[1]] = 2
    /\ headerNumber[blockHashes[2]] = 3
    /\ headerNumber[blockHashes[3]] = 1

\* ------------------------------------------------------------------------
\* Properties of the finalize submitter's rate limit and deferred guard
\* ------------------------------------------------------------------------

\* The previous batch the rate limit compares with was created less than the
\* interval before the batch this invocation selected.
CreatedWithinInterval(f) ==
    /\ FinalizingOrFinalized(rollupStatus) # {}
    /\ LET prev == Latest(FinalizingOrFinalized(rollupStatus)) IN
          /\ CreatedAt(prev) <= CreatedAt(fHash[f])
          /\ CreatedAt(fHash[f]) - CreatedAt(prev) < FinalizeBatchIntervalSec

\* This step hands no finalize transaction to the sender.
NoFinalizeSubmission ==
    /\ pendingTxs' = pendingTxs
    /\ finalizeAccepted' = finalizeAccepted

\* The step of invocation f issues the write of FinalizationSkipped for its
\* batch: the row carries it afterwards, or the store returned an error.
MarksSkipped(f) ==
    \/ rollupStatus'[fHash[f]] = RollupFinalizationSkipped
    \/ dbFailures' = dbFailures + 1

C13_BadBuffersLeaveBatchCommitted ==
    [][\A f \in Finalizers :
          FinalizeBuffersNotReady(f)
          => /\ NoFinalizeSubmission
             /\ rollupStatus' = rollupStatus]_vars

\* C14 as stated: every return of the invocation from the rate limit onward
\* that is not a successful submission, the failed lookup of the previous
\* batch included, writes FinalizationSkipped.
C14_EveryFailureMarksSkipped ==
    [][\A f \in Finalizers :
          (fpc[f] \in {"rate", "send"} /\ fpc'[f] = "idle")
          => MarksSkipped(f)]_vars

\* C14: a return after the deferred guard is registered (failed fetch, absent
\* or malformed buffers, failed Pack, rejected send) writes
\* FinalizationSkipped, and so does the rate limit's own skip; the failed
\* lookup of the previous batch returns before the guard is registered and
\* leaves the batch as it is.
C14_GuardedFailuresMarkSkipped ==
    [][\A f \in Finalizers :
          /\ (fpc[f] = "send" /\ fpc'[f] = "idle") => MarksSkipped(f)
          /\ RateTooSoon(f) => MarksSkipped(f)
          /\ RateLookupFails(f) => rollupStatus' = rollupStatus]_vars

\* A verified batch was skipped although the sender never accepted a finalize
\* transaction, so that no rate limit applied: the deferred guard wrote it.
C14_Witness ==
    /\ AcceptedTotal = 0
    /\ \E b \in Batches :
          /\ rollupStatus[b] = RollupFinalizationSkipped
          /\ provingStatus[b] = ProvingTaskVerified

\* ------------------------------------------------------------------------
\* Properties of the commit submitter
\* ------------------------------------------------------------------------

\* The batches of the list whose row does not carry {Committing, txHash}.
NotRecorded(rs, th) ==
    {b \in SeqRange(cHashes) :
        ~(/\ rs[b] = RollupCommitting
          /\ th[b] = SentTxHash(CommitTxID(cHashes)))}

\* C16: after a successful send SendCommitTx writes {Committing, txHash} for
\* every batch of the list (a write the store refuses is logged and skipped)
\* and then stores the whole list, in order, under the transaction ID, leaving
\* the other entries alone; an empty list, a failed Pack and a rejected send
\* write nothing.
C16_CommitRecordsEveryBatchAndOneEntry ==
    [][/\ (cpc = "idle" /\ cpc' = "record")
            => /\ cHashes' # <<>>
               /\ UNCHANGED <<dbVars, registryVars>>
       /\ (CommitEmptyList \/ CommitPackFails
             \/ \E err \in SendErrors : CommitSendRejected(err))
            => UNCHANGED <<dbVars, registryVars, senderVars>>
       /\ (cpc = "record" /\ cpc' = "store")
            => /\ Cardinality(NotRecorded(rollupStatus', commitTxHash'))
                     <= dbFailures' - dbFailures
               /\ \A b \in Batches \ SeqRange(cHashes) :
                     /\ rollupStatus'[b] = rollupStatus[b]
                     /\ commitTxHash'[b] = commitTxHash[b]
               /\ UNCHANGED registryVars
       /\ (cpc = "store" /\ cpc' = "idle")
            => /\ MapHas(processingBatchesCommitment', CommitTxID(cHashes))
               /\ processingBatchesCommitment'[CommitTxID(cHashes)] = cHashes
               /\ DOMAIN processingBatchesCommitment' =
                     DOMAIN processingBatchesCommitment
                        \cup {CommitTxID(cHashes)}
               /\ \A k \in DOMAIN processingBatchesCommitment :
                     k # CommitTxID(cHashes) =>
                        processingBatchesCommitment'[k] =
                           processingBatchesCommitment[k]
               /\ UNCHANGED <<dbVars, processingMessage,
                              processingFinalization>>]_vars

\* SendCommitTx on the list <<1, 2>> has returned: both rows carry
\* {Committing, txHash} and the registry maps the ID to the list.
C16_Witness ==
    /\ cpc = "idle"
    /\ MapHas(processingBatchesCommitment, CommitTxID(<<1, 2>>))
    /\ processingBatchesCommitment[CommitTxID(<<1, 2>>)] = <<1, 2>>
    /\ \A b \in {1, 2} :
          /\ rollupStatus[b] = RollupCommitting
          /\ commitTxHash[b] = SentTxHash(CommitTxID(<<1, 2>>))

\* ------------------------------------------------------------------------
\* Properties of the gas-price oracle and of the submitters under
\* backpressure
\* ------------------------------------------------------------------------

\* C11: with the latest batch pending and the price fetched, the invocation
\* goes into the update branch if and only if lastPrice = 0 or (newPrice >=
\* minPrice and |newPrice - lastPrice| >= lastPrice * diffRatio / precision),
\* the right-hand side computed in the integers.
C11_UpdateIffRelativeThreshold ==
    [][(gpc = "rule" /\ gpc' # "rule") =>
          LET delta == (lastGasPrice * gasPriceDiff) \div GasPriceDiffPrecision
              distance == IF gPrice >= lastGasPrice
                          THEN gPrice - lastGasPrice
                          ELSE lastGasPrice - gPrice
          IN gAttempt' <=> \/ lastGasPrice = 0
                           \/ /\ gPrice >= minGasPrice
                              /\ distance >= delta]_vars

\* C15: a send rejected with ErrNoAvailableAccount or ErrFullPending leaves
\* every batch status, transaction hash and registry and the last applied gas
\* price as they were, whichever submitter made the call.
C15_BackpressureChangesNothing ==
    [][\A err \in {ErrNoAvailableAccount, ErrFullPending} :
          (\/ GasOracleSendRejected(err)
           \/ CommitSendRejected(err)
           \/ \E f \in Finalizers : FinalizeSendRejected(f, err))
          => UNCHANGED <<rollupStatus, commitTxHash, finalizeTxHash,
                         gasOracleStatus, oracleTxHash, registryVars,
                         lastGasPrice>>]_vars

\* C17: the gas oracle sender never holds more than one transaction that it
\* accepted and has not confirmed.
C17_AtMostOneGasPriceTxOutstanding ==
    Cardinality(gasPendingTxs) <= 1

\* C23: once a batch's gasOracleStatus is Imported or Failed, no write sets
\* it back to Importing, however ProcessGasPriceOracle and the confirmation
\* loop interleave.
C23_OracleStatusNeverBackToImporting ==
    [][\A b \in Batches :
          gasOracleStatus[b] \in {GasOracleImported, GasOracleFailed}
          => gasOracleStatus'[b] # GasOracleImporting]_vars

\* ------------------------------------------------------------------------
\* Properties of handleConfirmation's writes
\* ------------------------------------------------------------------------

\* The batches the registries name for the confirmation being handled.
CommitHit ==
    IF MapHas(processingBatchesCommitment, cfm.id)
    THEN SeqRange(processingBatchesCommitment[cfm.id]) ELSE {}
FinalizeHit ==
    IF MapHas(processingFinalization, cfm.id)
    THEN {processingFinalization[cfm.id]} ELSE {}

\* C22: for a confirmation whose ID is in the commit registry,
\* handleConfirmation writes Committed or CommitFailed (by the event's success
\* flag) with the event's transaction hash for every batch of the registered
\* list and removes the entry; for an ID in the finalize registry it writes
\* Finalized or FinalizeFailed with the event's hash for the registered batch
\* and removes the entry; no other batch is written.  A write the store
\* refuses is logged and the handler goes on.
C22_ConfirmationWritesRegisteredBatchesOnly ==
    [][(hpc = "handle" /\ hpc' = "idle") =>
          LET commitStatus ==
                 IF cfm.ok THEN RollupCommitted ELSE RollupCommitFailed
              finalStatus ==
                 IF cfm.ok THEN RollupFinalized ELSE RollupFinalizeFailed
              commitMissed ==
                 {b \in CommitHit \ FinalizeHit :
                     ~(/\ rollupStatus'[b] = commitStatus
                       /\ commitTxHash'[b] = ConfirmedTxHash(cfm.id))}
              finalMissed ==
                 {b \in FinalizeHit :
                     ~(/\ rollupStatus'[b] = finalStatus
                       /\ finalizeTxHash'[b] = ConfirmedTxHash(cfm.id))}
          IN /\ Cardinality(commitMissed) + Cardinality(finalMissed)
                   <= dbFailures' - dbFailures
             /\ \A b \in commitMissed \cup finalMissed :
                   rollupStatus'[b] = rollupStatus[b]
             /\ ~MapHas(processingBatchesCommitment', cfm.id)
             /\ ~MapHas(processingFinalization', cfm.id)
             /\ \A b \in Batches \ (CommitHit \cup FinalizeHit) :
                   /\ rollupStatus'[b] = rollupStatus[b]
                   /\ commitTxHash'[b] = commitTxHash[b]
                   /\ finalizeTxHash'[b] = finalizeTxHash[b]
             /\ \A b \in Batches \ CommitHit :
                   commitTxHash'[b] = commitTxHash[b]
             /\ \A b \in Batches \ FinalizeHit :
                   finalizeTxHash'[b] = finalizeTxHash[b]]_vars

\* The commit of batch 1 and its finalization were confirmed as successful
\* and the commit of batch 2 as failed: each left its status and the event's
\* hash, and the registries are empty again.
C22_Witness ==
    /\ hpc = "idle"
    /\ rollupStatus[1] = RollupFinalized
    /\ finalizeTxHash[1] = ConfirmedTxHash(FinalizeTxID(1))
    /\ commitTxHash[1] = ConfirmedTxHash(CommitTxID(<<1>>))
    /\ rollupStatus[2] = RollupCommitFailed
    /\ commitTxHash[2] = ConfirmedTxHash(CommitTxID(<<2>>))
    /\ DOMAIN processingBatchesCommitment = {}
    /\ DOMAIN processingFinalization = {}

\* ------------------------------------------------------------------------
\* Properties of the order of finalization
\* ------------------------------------------------------------------------

\* The invocation f has just selected its batch: no older batch is committed
\* in the store it read.
SelectsOldestCommitted(f) ==
    (fpc[f] = "idle" /\ fpc'[f] = "rate")
    => \A b \in Batches : b < fHash'[f] => rollupStatus'[b] # RollupCommitted

\* The sender accepts the finalize transaction of invocation f and has
\* accepted none for this batch or a later one before.
SubmitsInIncreasingOrder(f) ==
    FinalizeSendAccepted(f)
    => \A b \in Batches : b >= fHash[f] => finalizeAccepted[b] = 0

\* C21 as stated: an invocation goes on to finalize a batch only if no older
\* batch was committed when it selected the batch, and with non-overlapping
\* invocations the finalize transactions are submitted in strictly increasing
\* order of batch index.
C21_OldestFirstAndIncreasingOrder ==
    [][\A f \in Finalizers :
          SelectsOldestCommitted(f) /\ SubmitsInIncreasingOrder(f)]_vars

\* ------------------------------------------------------------------------
\* Properties of the prover agent's shutdown
\* ------------------------------------------------------------------------

\* A step of the running iteration that calls the queue: Peek, UpdateTimes or
\* Delete.
QueueOperation ==
    /\ lpc = "run"
    /\ \/ PeekTask
       \/ CheckRetry /\ ShouldProve(task.times)
       \/ DeleteTask

\* C24: once Stop has closed stopChan the loop's select starts no further
\* iteration and returns, and once Stop has closed the queue handle the
\* iteration in progress calls neither Peek nor UpdateTimes nor Delete.
C24_NoIterationAndNoQueueCallAfterStop ==
    [][/\ (lpc = "select" /\ stopChanCloses > 0) => lpc' # "run"
       /\ stackCloses > 0 => ~QueueOperation]_vars

\* C25: however many calls of Stop there are, from one thread or several,
\* stopChan and the queue are each closed at most once, and exactly once when
\* a call of Stop has run to its end.
C25_StopClosesExactlyOnce ==
    /\ stopChanCloses <= 1
    /\ stackCloses <= 1
    /\ (stopCalls > 0 /\ \A t \in Stoppers : spc[t] = "idle")
          => (stopChanCloses = 1 /\ stackCloses = 1)

====
